---------------------------- MODULE Spec2Model ----------------------------
(***************************************************************************)
(* AI Daily: the tag/keyword extractor, the page renderer, the index       *)
(* writer (src/src/simple_generator.py), the news source client            *)
(* (src/src/tianapi_fetcher.py) and the orchestrator (src/src/main.py).    *)
(*                                                                         *)
(* Text is modelled as a sequence of characters, one element per code      *)
(* point, so that len(), slicing, concatenation and the `in' substring     *)
(* test are computed as Python computes them.  A character outside ASCII   *)
(* is written as its code point, "U+6A21".                                 *)
(***************************************************************************)
EXTENDS Integers, Sequences, FiniteSets, TLC

VARIABLES
    tg_pc, tg_title, tg_tags,                          \* one call of extract_tags_from_title
    rd_pc, rd_news, rd_date, rd_clock, rd_out1, rd_out2, \* two executions of the rendering pipeline
    fs_pc, fs_files, fs_call, fs_before, fs_calls, fs_last, \* generate_simple_html on one directory
    m_pc, m_cfg, m_log, m_made, m_result, m_exit       \* one run of main()

tgVars == <<tg_pc, tg_title, tg_tags>>
rdVars == <<rd_pc, rd_news, rd_date, rd_clock, rd_out1, rd_out2>>
fsVars == <<fs_pc, fs_files, fs_call, fs_before, fs_calls, fs_last>>
mVars  == <<m_pc, m_cfg, m_log, m_made, m_result, m_exit>>
vars   == <<tgVars, rdVars, fsVars, mVars>>

\* The value of a variable that holds nothing yet (Python's None / unbound).
None == "None"

-----------------------------------------------------------------------------
(* Text helpers: Python's str operations on sequences of characters.       *)

Min(a, b) == IF a < b THEN a ELSE b

\* s[:n]
Prefix(s, n) == SubSeq(s, 1, Min(n, Len(s)))

\* `kw in title'
Contains(title, kw) ==
    \E i \in 1..(Len(title) - Len(kw) + 1) : SubSeq(title, i, i + Len(kw) - 1) = kw

RECURSIVE Concat(_)
\* "".join(parts)
Concat(parts) ==
    IF parts = <<>> THEN <<>> ELSE Head(parts) \o Concat(Tail(parts))

RECURSIVE Join(_, _)
\* sep.join(parts)
Join(sep, parts) ==
    IF parts = <<>> THEN <<>>
    ELSE IF Len(parts) = 1 THEN Head(parts)
    ELSE Head(parts) \o sep \o Join(sep, Tail(parts))

\* dict.get(key, default)
Get(d, key, default) == IF key \in DOMAIN d THEN d[key] ELSE default

-----------------------------------------------------------------------------
(* extract_tags_from_title                                                 *)

T_OpenAI    == <<"O", "p", "e", "n", "A", "I">>
T_ChatGPT   == <<"C", "h", "a", "t", "G", "P", "T">>
T_GPT       == <<"G", "P", "T">>
T_Google    == <<"G", "o", "o", "g", "l", "e">>
T_Gemini    == <<"G", "e", "m", "i", "n", "i">>
T_Anthropic == <<"A", "n", "t", "h", "r", "o", "p", "i", "c">>
T_Claude    == <<"C", "l", "a", "u", "d", "e">>
T_Microsoft == <<"M", "i", "c", "r", "o", "s", "o", "f", "t">>
T_Meta      == <<"M", "e", "t", "a">>
T_LLaMA     == <<"L", "L", "a", "M", "A">>
T_DeepSeek  == <<"D", "e", "e", "p", "S", "e", "e", "k">>
T_Baidu     == <<"U+767E", "U+5EA6">>
T_Ali       == <<"U+963F", "U+91CC">>
T_Tencent   == <<"U+817E", "U+8BAF">>
T_Byte      == <<"U+5B57", "U+8282">>
T_AI        == <<"A", "I">>
T_BigModel  == <<"U+5927", "U+6A21", "U+578B">>
T_Robot     == <<"U+673A", "U+5668", "U+4EBA">>
T_AutoDrive == <<"U+81EA", "U+52A8", "U+9A7E", "U+9A76">>
T_Chip      == <<"U+82AF", "U+7247">>
T_Algorithm == <<"U+7B97", "U+6CD5">>
T_Model     == <<"U+6A21", "U+578B">>

\* The dict `keywords' of extract_tags_from_title, in insertion order.
TagTable ==
    << [kw |-> T_OpenAI,    tag |-> T_OpenAI],
       [kw |-> T_ChatGPT,   tag |-> T_ChatGPT],
       [kw |-> T_GPT,       tag |-> T_GPT],
       [kw |-> T_Google,    tag |-> T_Google],
       [kw |-> T_Gemini,    tag |-> T_Gemini],
       [kw |-> T_Anthropic, tag |-> T_Anthropic],
       [kw |-> T_Claude,    tag |-> T_Claude],
       [kw |-> T_Microsoft, tag |-> T_Microsoft],
       [kw |-> T_Meta,      tag |-> T_Meta],
       [kw |-> T_LLaMA,     tag |-> T_LLaMA],
       [kw |-> T_DeepSeek,  tag |-> T_DeepSeek],
       [kw |-> T_Baidu,     tag |-> T_Baidu],
       [kw |-> T_Ali,       tag |-> T_Ali],
       [kw |-> T_Tencent,   tag |-> T_Tencent],
       [kw |-> T_Byte,      tag |-> T_Byte],
       [kw |-> T_AI,        tag |-> T_AI],
       [kw |-> T_BigModel,  tag |-> T_BigModel],
       [kw |-> T_Robot,     tag |-> T_Robot],
       [kw |-> T_AutoDrive, tag |-> T_AutoDrive],
       [kw |-> T_Chip,      tag |-> T_Chip],
       [kw |-> T_Algorithm, tag |-> T_Algorithm],
       [kw |-> T_Model,     tag |-> T_Model] >>

\* `if len(tags) >= 4: break'
MaxTags == 4

RECURSIVE TagLoop(_, _, _)
\* The for loop over keywords.items(), from entry i on, with its break.
TagLoop(title, i, tags) ==
    IF i > Len(TagTable) THEN tags
    ELSE IF Contains(title, TagTable[i].kw)
         THEN LET t == Append(tags, TagTable[i].tag)
              IN  IF Len(t) >= MaxTags THEN t ELSE TagLoop(title, i + 1, t)
         ELSE TagLoop(title, i + 1, tags)

RECURSIVE TagLoopNoBreak(_, _, _)
\* The loop with its break dropped.
TagLoopNoBreak(title, i, tags) ==
    IF i > Len(TagTable) THEN tags
    ELSE IF Contains(title, TagTable[i].kw)
         THEN TagLoopNoBreak(title, i + 1, Append(tags, TagTable[i].tag))
         ELSE TagLoopNoBreak(title, i + 1, tags)

extract_tags_no_break(title) ==
    LET tags == TagLoopNoBreak(title, 1, <<>>)
    IN  IF tags = <<>> THEN <<T_AI>> ELSE tags

extract_tags_from_title(title) ==
    LET tags == TagLoop(title, 1, <<>>)
    IN  IF tags = <<>> THEN <<T_AI>> ELSE tags

-----------------------------------------------------------------------------
(* Titles: concatenations of at most MaxFrags fragments.  Fragments join    *)
(* into vocabulary entries across their borders ("Gem" + "ini").           *)

MaxFrags == 3

Fragments ==
    { T_OpenAI, T_ChatGPT, T_Model, <<"U+5927">>, <<"G", "e", "m">>, <<"i", "n", "i">>,
      T_Algorithm, <<" ">>, <<"x">> }

RECURSIVE FragSeqs(_)
FragSeqs(n) ==
    IF n = 0 THEN { <<>> }
    ELSE LET shorter == FragSeqs(n - 1)
         IN  shorter \cup { Append(s, f) : s \in { t \in shorter : Len(t) = n - 1 }, f \in Fragments }

Titles == { Concat(s) : s \in FragSeqs(MaxFrags) }


-----------------------------------------------------------------------------
(* datetime.strptime(target_date, "%Y-%m-%d"), date.weekday() and the      *)
(* date_str f-string of generate_simple_html.                              *)

Digits == <<"0", "1", "2", "3", "4", "5", "6", "7", "8", "9">>

IsDigit(c) == \E i \in 1..Len(Digits) : Digits[i] = c

DigitVal(c) == (CHOOSE i \in 1..Len(Digits) : Digits[i] = c) - 1

RECURSIVE ParseInt(_)
\* int(s) of a non-empty string of decimal digits
ParseInt(s) ==
    IF Len(s) = 1 THEN DigitVal(s[1])
    ELSE ParseInt(SubSeq(s, 1, Len(s) - 1)) * 10 + DigitVal(s[Len(s)])

RECURSIVE Dec(_)
\* str(n) of a natural number
Dec(n) == IF n < 10 THEN <<Digits[n + 1]>> ELSE Dec(n \div 10) \o <<Digits[(n % 10) + 1]>>

RECURSIVE SplitDash(_)
\* The fields of s between its "-" characters.
SplitDash(s) ==
    IF \A i \in 1..Len(s) : s[i] # "-" THEN <<s>>
    ELSE LET i == CHOOSE j \in 1..Len(s) : s[j] = "-" /\ \A k \in 1..(j - 1) : s[k] # "-"
         IN  <<SubSeq(s, 1, i - 1)>> \o SplitDash(SubSeq(s, i + 1, Len(s)))

IsLeap(y) == y % 4 = 0 /\ (y % 100 # 0 \/ y % 400 = 0)

DaysInMonth(y, m) ==
    IF m = 2 THEN (IF IsLeap(y) THEN 29 ELSE 28)
    ELSE IF m \in {4, 6, 9, 11} THEN 30 ELSE 31

RECURSIVE DaysBeforeMonth(_, _)
DaysBeforeMonth(y, m) == IF m = 1 THEN 0 ELSE DaysBeforeMonth(y, m - 1) + DaysInMonth(y, m - 1)

\* date.toordinal(): 1 for 0001-01-01
ToOrdinal(d) ==
    LET y == d.year - 1
    IN  y * 365 + (y \div 4) - (y \div 100) + (y \div 400) + DaysBeforeMonth(d.year, d.month) + d.day

\* date.weekday(): 0 for Monday
Weekday(d) == (ToOrdinal(d) + 6) % 7

\* The exception strptime raises, as a value told from a date by its field.
ValueError == [error |-> "ValueError"]

Raised(v) == "error" \in DOMAIN v

\* strptime with "%Y-%m-%d": four digits, one or two digits of a month 1..12, one
\* or two digits of a day 1..31, nothing else; then the date must exist.
strptime(s) ==
    LET p == SplitDash(s)
    IN  IF \/ Len(p) # 3
           \/ \E i \in 1..Len(p) : p[i] = <<>> \/ \E j \in 1..Len(p[i]) : ~IsDigit(p[i][j])
        THEN ValueError
        ELSE IF Len(p[1]) # 4 \/ Len(p[2]) > 2 \/ Len(p[3]) > 2
        THEN ValueError
        ELSE LET y == ParseInt(p[1])
                 m == ParseInt(p[2])
                 d == ParseInt(p[3])
             IN  IF m < 1 \/ m > 12 \/ d < 1 \/ d > 31 THEN ValueError
                 ELSE IF y < 1 \/ d > DaysInMonth(y, m) THEN ValueError
                 ELSE [year |-> y, month |-> m, day |-> d]

WeekdayNames ==
    << <<"U+661F", "U+671F", "U+4E00">>, <<"U+661F", "U+671F", "U+4E8C">>,
       <<"U+661F", "U+671F", "U+4E09">>, <<"U+661F", "U+671F", "U+56DB">>,
       <<"U+661F", "U+671F", "U+4E94">>, <<"U+661F", "U+671F", "U+516D">>,
       <<"U+661F", "U+671F", "U+65E5">> >>

\* f"{date_obj.year}年{date_obj.month}月{date_obj.day}日 {weekday}"
DateStr(d) ==
    Dec(d.year) \o <<"U+5E74">> \o Dec(d.month) \o <<"U+6708">> \o Dec(d.day) \o <<"U+65E5">>
        \o <<" ">> \o WeekdayNames[Weekday(d) + 1]

Date_0601  == <<"2", "0", "2", "4", "-", "0", "6", "-", "0", "1">>
Date_61    == <<"2", "0", "2", "4", "-", "6", "-", "1">>
Date_0602  == <<"2", "0", "2", "4", "-", "0", "6", "-", "0", "2">>
Date_1301  == <<"2", "0", "2", "4", "-", "1", "3", "-", "0", "1">>
Date_0230  == <<"2", "0", "2", "3", "-", "0", "2", "-", "2", "9">>
Date_Plain == <<"2", "0", "2", "4", "0", "6", "0", "1">>

ValidDates   == { Date_0601, Date_61, Date_0602 }
InvalidDates == { Date_1301, Date_0230, Date_Plain }

-----------------------------------------------------------------------------
(* extract_keywords, generate_summary, generate_news_cards, build_html.    *)
(* A news record is a function from the fields it has to their values.     *)
(* Markup that does not depend on the input is one element, named for it.  *)

K_AI       == <<"A", "I">>
K_AIzh     == <<"U+4EBA", "U+5DE5", "U+667A", "U+80FD">>
K_ML       == <<"U+673A", "U+5668", "U+5B66", "U+4E60">>
K_DL       == <<"U+6DF1", "U+5EA6", "U+5B66", "U+4E60">>
K_BigModel == <<"U+5927", "U+6A21", "U+578B">>
K_Tech     == <<"U+79D1", "U+6280">>
K_Algo     == <<"U+7B97", "U+6CD5">>

\* The vocabulary of extract_keywords.
KeywordVocab == <<K_AI, K_AIzh, K_ML, K_DL, K_BigModel, K_Tech, K_Algo>>

\* news_list[:10] and list(keywords)[:10]
KeywordScan == 10
KeywordCap  == 10

\* The set `keywords' once the loops of extract_keywords have run.
KeywordSet(news_list) ==
    { KeywordVocab[j] : j \in { k \in 1..Len(KeywordVocab) :
        \E i \in 1..Min(KeywordScan, Len(news_list)) :
            Contains(Get(news_list[i], "title", <<>>), KeywordVocab[k]) } }

\* Every order in which a set's elements can be listed.
Orders(S) ==
    { o \in [1..Cardinality(S) -> S] : \A i, j \in 1..Cardinality(S) : i # j => o[i] # o[j] }

\* The results extract_keywords can return: list(keywords) lists a set of str in
\* the order of their hashes, which differ from one interpreter process to the
\* next (hash randomisation); then the slice [:10].
extract_keywords(news_list) ==
    { Prefix(o, KeywordCap) : o \in Orders(KeywordSet(news_list)) }

\* The same with the set listed in the order of the vocabulary.
extract_keywords_sorted(news_list) ==
    { Prefix(SelectSeq(KeywordVocab, LAMBDA k : k \in KeywordSet(news_list)), KeywordCap) }

NoTitle        == <<"U+65E0", "U+6807", "U+9898">>
UnknownSource  == <<"U+672A", "U+77E5", "U+6765", "U+6E90">>
Ellipsis       == <<".", ".", ".">>
DefaultKeywords ==
    <<"A", "I", ",", " ", "U+4EBA", "U+5DE5", "U+667A", "U+80FD", ",", " ", "U+79D1", "U+6280">>

\* `if len(description) > 100: description = description[:100] + "..."'
TruncLen == 100
\* news_list[:5] in build_html
SummaryItems == 5

LiOpen      == <<"<li class=summary-item>">>
LiClose     == <<"</li>\n">>
SummaryHead == <<"<section class=summary-card><h2>...</h2><ul class=summary-list>\n">>
SummaryTail == <<"</ul></section>\n\n">>

\* The loop body with the test written `>= 100'.
SummaryItemOffByOne(news) ==
    LET title == Get(news, "title", NoTitle)
        description == Get(news, "description", <<>>)
        shown == IF Len(description) >= TruncLen
                 THEN SubSeq(description, 1, TruncLen) \o Ellipsis
                 ELSE description
    IN  LiOpen \o title \o <<" ", "-", " ">> \o shown \o LiClose

\* One pass of the loop body of generate_summary.
SummaryItem(news) ==
    LET title == Get(news, "title", NoTitle)
        description == Get(news, "description", <<>>)
        shown == IF Len(description) > TruncLen
                 THEN SubSeq(description, 1, TruncLen) \o Ellipsis
                 ELSE description
    IN  LiOpen \o title \o <<" ", "-", " ">> \o shown \o LiClose

\* generate_summary without its `if not news_list' test.
generate_summary_unguarded(news_list) ==
    SummaryHead
        \o Concat([i \in 1..Len(news_list) |-> SummaryItem(news_list[i])])
        \o SummaryTail

generate_summary(news_list) ==
    IF news_list = <<>> THEN <<>>
    ELSE SummaryHead
            \o Concat([i \in 1..Len(news_list) |-> SummaryItem(news_list[i])])
            \o SummaryTail

CardOpen  == <<"<article class=news-card><h3 class=news-title>">>
CardHref  == <<"</h3><a href=">>
CardDesc  == <<" class=item-link>...</a><p class=news-summary>">>
CardSrc   == <<"</p><div class=item-meta><span class=source>...: ">>
CardTime  == <<"</span><span class=time>">>
CardTags  == <<"</span></div><div class=item-tags>">>
CardClose == <<"</div></article>\n">>
TagOpen   == <<"<span class=tag>#">>
TagClose  == <<"</span>">>

\* One pass of the loop body of generate_news_cards.
NewsCard(news) ==
    LET title == Get(news, "title", NoTitle)
        description == Get(news, "description", <<>>)
        url == Get(news, "url", <<"#">>)
        source == Get(news, "source", UnknownSource)
        ctime == Get(news, "ctime", <<>>)
        tags == extract_tags_from_title(title)
    IN  CardOpen \o title \o CardHref \o url \o CardDesc \o description \o CardSrc \o source
            \o CardTime \o ctime \o CardTags
            \o Join(<<" ">>, [i \in 1..Len(tags) |-> TagOpen \o tags[i] \o TagClose])
            \o CardClose

generate_news_cards(news_list) ==
    Concat([i \in 1..Len(news_list) |-> NewsCard(news_list[i])])

\* The places of the page template that build_html fills in; `now' is the value
\* of datetime.now().
build_html(news_list, target_date, date_str, keywords, now) ==
    [ title           |-> date_str,
      meta_keywords   |-> IF keywords # <<>> THEN Join(<<",", " ">>, keywords) ELSE DefaultKeywords,
      date_badge      |-> date_str,
      summary         |-> generate_summary(Prefix(news_list, SummaryItems)),
      count           |-> Len(news_list),
      cards           |-> generate_news_cards(news_list),
      footer_keywords |-> Join(<<" ">>, [i \in 1..Len(keywords) |-> <<"#">> \o keywords[i]]),
      generated       |-> now ]

-----------------------------------------------------------------------------
(* The state each part of the program has before it runs.                  *)

TgIdle == tg_pc = "idle" /\ tg_title = <<>> /\ tg_tags = <<>>
RdIdle == /\ rd_pc = "idle" /\ rd_news = <<>> /\ rd_date = None /\ rd_clock = 0
          /\ rd_out1 = None /\ rd_out2 = None
FsIdle == /\ fs_pc = "off" /\ fs_files = <<>> /\ fs_call = None /\ fs_before = {}
          /\ fs_calls = 0 /\ fs_last = None
MIdle  == /\ m_pc = "off" /\ m_cfg = None /\ m_log = <<>> /\ m_made = {}
          /\ m_result = <<>> /\ m_exit = None

-----------------------------------------------------------------------------
(* One call of extract_tags_from_title on a title.                          *)

InitTags ==
    /\ tg_pc = "call" /\ tg_title \in Titles /\ tg_tags = <<>>
    /\ RdIdle /\ FsIdle /\ MIdle

ExtractTags ==
    /\ tg_pc = "call"
    /\ tg_tags' = extract_tags_from_title(tg_title)
    /\ tg_pc' = "done"
    /\ UNCHANGED <<tg_title, rdVars, fsVars, mVars>>

NextTags == ExtractTags

SpecTags == InitTags /\ [][NextTags]_vars

\* The entries of the table whose substring occurs in the title, in table order.
MatchingEntries(title) == SelectSeq(TagTable, LAMBDA e : Contains(title, e.kw))

\* C1: extract_tags_from_title returns the labels of the first min(4, k) matching
\* entries of the table, in table order, k being the number of matching entries;
\* with k = 0 it returns exactly ["AI"]; so the result has 1 to 4 elements.
C1_TagsAreFirstMatches ==
    tg_pc = "done" =>
        LET m == MatchingEntries(tg_title)
            k == Len(m)
        IN  /\ k = 0 => tg_tags = << <<"A", "I">> >>
            /\ k > 0 => tg_tags = [i \in 1..Min(4, k) |-> m[i].tag]
            /\ Len(tg_tags) >= 1 /\ Len(tg_tags) <= 4

\* A title with more than four matching entries has been tagged.
C1_Witness == tg_pc = "done" /\ Len(MatchingEntries(tg_title)) > 4

-----------------------------------------------------------------------------
(* Two executions of the rendering pipeline (extract_keywords, then         *)
(* build_html) on one news list and one date.                               *)

\* A JSON null in a record of the API's answer.
Null == <<"null">>

TypeError == [error |-> "TypeError"]

\* Where the pipeline raises on a null: `keyword in title' in extract_keywords
\* (first 10 records) and in extract_tags_from_title (every record), and
\* len(description) in generate_summary (first 5 records).
PipelineRaises(news_list) ==
    \/ \E i \in 1..Len(news_list) : Get(news_list[i], "title", <<>>) = Null
    \/ \E i \in 1..Min(SummaryItems, Len(news_list)) : Get(news_list[i], "description", <<>>) = Null

\* A text of n characters, no two neighbours alike.
Text(n) == [i \in 1..n |-> Digits[(i % 10) + 1]]

DescExtra == 3
MaxNews   == 6
MaxPad    == 10

Fields == {"title", "description", "url", "source", "ctime"}

FullRecord(title, description) ==
    [ title |-> title, description |-> description, url |-> <<"h", ":", "/", "/", "u">>,
      source |-> <<"s", "r", "c">>, ctime |-> <<"1", "2", ":", "0", "0">> ]

Restrict(f, S) == [k \in S |-> f[k]]

RenderTitles == { T_OpenAI \o <<" ">> \o T_Algorithm, T_BigModel, <<"x">> }

Descriptions ==
    { Text(n) : n \in {0, 1, TruncLen - 1, TruncLen, TruncLen + 1, TruncLen + DescExtra} }

\* Records with every field, records lacking any subset of the fields, and
\* records whose title or description is null.
RichRecords ==
    { FullRecord(t, d) : t \in RenderTitles, d \in Descriptions }
        \cup { Restrict(FullRecord(T_BigModel, Text(TruncLen + 1)), S) : S \in SUBSET Fields }
        \cup { FullRecord(Null, Text(1)), FullRecord(<<"x">>, Null) }

PoolA == FullRecord(T_OpenAI \o <<" ">> \o T_Algorithm, Text(TruncLen + 1))
PoolB == FullRecord(T_Gemini, Text(TruncLen))
PoolC == Restrict(FullRecord(<<"x">>, <<>>), {"url"})

RECURSIVE ListsUpTo(_, _)
ListsUpTo(S, n) ==
    IF n = 0 THEN { <<>> }
    ELSE LET shorter == ListsUpTo(S, n - 1)
         IN  shorter \cup { Append(l, x) : l \in { t \in shorter : Len(t) = n - 1 }, x \in S }

\* The news lists rendered: up to MaxNews records of a pool of three; one or two
\* records of every kind; and a record with keywords after up to MaxPad without.
NewsLists ==
    ListsUpTo({PoolA, PoolB, PoolC}, MaxNews)
        \cup { <<a>> : a \in RichRecords }
        \cup { <<a, b>> : a \in RichRecords, b \in {PoolA, PoolC, FullRecord(<<"x">>, Null)} }
        \cup { [i \in 1..(n + 1) |-> IF i <= n THEN PoolC ELSE PoolA] : n \in 0..MaxPad }

InitRender ==
    /\ rd_pc = "first" /\ rd_news \in NewsLists /\ rd_date = Date_0601
    /\ rd_clock = 1 /\ rd_out1 = None /\ rd_out2 = None
    /\ TgIdle /\ FsIdle /\ MIdle

\* The documents one execution of the pipeline can produce at time `now'.
RenderPipeline(news_list, target_date, now) ==
    IF PipelineRaises(news_list) THEN { TypeError }
    ELSE { build_html(news_list, target_date, DateStr(strptime(target_date)), keywords, now) :
             keywords \in extract_keywords(news_list) }

\* The pipeline with the keyword set listed in a fixed order.
RenderPipelineSorted(news_list, target_date, now) ==
    IF PipelineRaises(news_list) THEN { TypeError }
    ELSE { build_html(news_list, target_date, DateStr(strptime(target_date)), keywords, now) :
             keywords \in extract_keywords_sorted(news_list) }

\* The first execution, at the time on the clock.
RenderFirst ==
    /\ rd_pc = "first"
    /\ rd_out1' \in RenderPipeline(rd_news, rd_date, rd_clock)
    /\ UNCHANGED rd_clock
    /\ rd_pc' = "second"
    /\ UNCHANGED <<rd_news, rd_date, rd_out2, tgVars, fsVars, mVars>>

\* The second execution, within the same second or later.
RenderSecond ==
    /\ rd_pc = "second"
    /\ \E now \in {rd_clock, rd_clock + 1} :
          /\ rd_out2' \in RenderPipeline(rd_news, rd_date, now)
          /\ rd_clock' = now
    /\ rd_pc' = "done"
    /\ UNCHANGED <<rd_news, rd_date, rd_out1, tgVars, fsVars, mVars>>

NextRender == RenderFirst \/ RenderSecond

SpecRender == InitRender /\ [][NextRender]_vars

-----------------------------------------------------------------------------
(* generate_simple_html and update_index on one output directory.  A call   *)
(* writes the stylesheet, parses the date, writes the dated page and then   *)
(* the index; fs_files maps each file's path under OUTPUT_DIR to its        *)
(* content.  The directories (mkdir, exist_ok) hold no state of their own.  *)

MaxCalls == 3

CssPath   == <<"c", "s", "s", "/", "s", "t", "y", "l", "e", "s", ".", "c", "s", "s">>
IndexPath == <<"i", "n", "d", "e", "x", ".", "h", "t", "m", "l">>

\* str(date): the date written with two-digit month and day.
IsoFormat(d) ==
    Dec(d.year) \o <<"-">> \o (IF d.month < 10 THEN <<"0">> ELSE <<>>) \o Dec(d.month)
        \o <<"-">> \o (IF d.day < 10 THEN <<"0">> ELSE <<>>) \o Dec(d.day)

\* The page named after the parsed date instead of the string given.
PagePathOfParsedDate(target_date) ==
    IsoFormat(strptime(target_date)) \o <<".", "h", "t", "m", "l">>

\* filename = f"{target_date}.html"
PagePath(target_date) == target_date \o <<".", "h", "t", "m", "l">>

\* The content generate_css writes.
CssContent == [css |-> "AI Daily Styles"]

\* The places of the index template that update_index fills in.
IndexHtml(target_date) ==
    [ refresh |-> target_date \o <<".", "h", "t", "m", "l">>,
      href    |-> target_date \o <<".", "h", "t", "m", "l">> ]

\* open(path, 'w') ... f.write(content): the file is created or replaced.
WriteFile(files, path, content) ==
    [q \in DOMAIN files \cup {path} |-> IF q = path THEN content ELSE files[q]]

FsNewsLists == { <<>>, <<PoolB>>, <<PoolA, PoolC>> }

InitFiles ==
    /\ fs_pc = "idle" /\ fs_files = <<>> /\ fs_call = None /\ fs_before = {}
    /\ fs_calls = 0 /\ fs_last = None
    /\ TgIdle /\ RdIdle /\ MIdle

\* The call with update_index moved to its start, before the date is parsed.
GsIndexFirst ==
    /\ fs_pc = "idle" /\ fs_calls < MaxCalls
    /\ \E news_list \in FsNewsLists, target_date \in ValidDates \cup InvalidDates :
          /\ fs_call' = [news_list |-> news_list, target_date |-> target_date]
          /\ fs_files' = WriteFile(WriteFile(fs_files, CssPath, CssContent),
                                   IndexPath, IndexHtml(target_date))
    /\ fs_before' = DOMAIN fs_files
    /\ fs_pc' = "strptime"
    /\ UNCHANGED <<fs_calls, fs_last, tgVars, rdVars, mVars>>

\* Lines 28-36: a call starts, makes the directories and writes the stylesheet.
GsGenerateCss ==
    /\ fs_pc = "idle" /\ fs_calls < MaxCalls
    /\ \E news_list \in FsNewsLists, target_date \in ValidDates \cup InvalidDates :
          fs_call' = [news_list |-> news_list, target_date |-> target_date]
    /\ fs_before' = DOMAIN fs_files
    /\ fs_files' = WriteFile(fs_files, CssPath, CssContent)
    /\ fs_pc' = "strptime"
    /\ UNCHANGED <<fs_calls, fs_last, tgVars, rdVars, mVars>>

\* Line 39: strptime; a ValueError ends the call.
GsParseDate ==
    /\ fs_pc = "strptime"
    /\ IF Raised(strptime(fs_call.target_date))
       THEN /\ fs_pc' = "idle"
            /\ fs_calls' = fs_calls + 1
            /\ fs_last' = [target_date |-> fs_call.target_date, outcome |-> "ValueError",
                           at |-> fs_calls + 1]
       ELSE /\ fs_pc' = "page"
            /\ UNCHANGED <<fs_calls, fs_last>>
    /\ UNCHANGED <<fs_files, fs_call, fs_before, tgVars, rdVars, mVars>>

\* Lines 40-54: the page is built and written; the time is the call's number.
GsWritePage ==
    /\ fs_pc = "page"
    /\ \E html_content \in RenderPipeline(fs_call.news_list, fs_call.target_date, fs_calls + 1) :
          fs_files' = WriteFile(fs_files, PagePath(fs_call.target_date), html_content)
    /\ fs_pc' = "index"
    /\ UNCHANGED <<fs_call, fs_before, fs_calls, fs_last, tgVars, rdVars, mVars>>

\* Lines 57-59: update_index, and the call returns.
GsUpdateIndex ==
    /\ fs_pc = "index"
    /\ fs_files' = WriteFile(fs_files, IndexPath, IndexHtml(fs_call.target_date))
    /\ fs_pc' = "idle"
    /\ fs_calls' = fs_calls + 1
    /\ fs_last' = [target_date |-> fs_call.target_date, outcome |-> "returned",
                   at |-> fs_calls + 1]
    /\ UNCHANGED <<fs_call, fs_before, tgVars, rdVars, mVars>>

NextFiles == GsGenerateCss \/ GsParseDate \/ GsWritePage \/ GsUpdateIndex

SpecFiles == InitFiles /\ [][NextFiles]_vars

-----------------------------------------------------------------------------
(* TianapiFetcher.fetch: what it makes of the answer of requests.get.       *)

NewsOfApi == <<PoolA, PoolB>>

\* The answers of the API call: no answer in time, an HTTP error status, a JSON
\* body with a code, with or without a result, and a user interrupt while the
\* call blocks.
ApiAnswers ==
    { [kind |-> "timeout"],
      [kind |-> "http", status |-> 500],
      [kind |-> "json", body |-> [code |-> 250, msg |-> "key error"]],
      [kind |-> "json", body |-> [code |-> 200, result |-> [newslist |-> NewsOfApi]]],
      [kind |-> "json", body |-> [code |-> 200]],
      [kind |-> "interrupt"] }

\* fetch: every Exception is wrapped and raised again; KeyboardInterrupt is no
\* Exception and passes through; otherwise result.newslist, [] when absent.
fetch(answer) ==
    IF answer.kind = "interrupt" THEN [outcome |-> "interrupt"]
    ELSE IF answer.kind = "timeout" THEN [outcome |-> "raise"]
    ELSE IF answer.kind = "http" THEN [outcome |-> "raise"]
    ELSE IF Get(answer.body, "code", 0) # 200 THEN [outcome |-> "raise"]
    ELSE [outcome |-> "ok",
          value |-> Get(Get(answer.body, "result", <<>>), "newslist", <<>>)]

-----------------------------------------------------------------------------
(* The collaborators of main() that are not in this source tree: the        *)
(* analyzer, the HTML generator, the image generators and the notifier.     *)
(* Each call returns a value, returns its failure sentinel, raises, or is   *)
(* interrupted by the user.                                                 *)

\* What ClaudeAnalyzer.analyze returns: a result with categories, a result
\* without a status, and the "empty" status with and without a reason.
AnalysisResults ==
    { [status |-> "success", theme |-> "blue",
       categories |-> << [items |-> <<"a", "b">>], [items |-> <<"c">>], [name |-> "none"] >>],
      [theme |-> "blue"],
      [status |-> "empty", reason |-> "no news today"],
      [status |-> "empty"] }

AnalyzeOutcomes ==
    { [outcome |-> "ok", value |-> r] : r \in AnalysisResults }
        \cup { [outcome |-> "raise"], [outcome |-> "interrupt"] }

\* HTMLGenerator.generate_css / generate_daily
HtmlOutcomes == { [outcome |-> "ok"], [outcome |-> "raise"], [outcome |-> "interrupt"] }

\* ImageGenerator.generate_from_analysis_result / XiaohongshuGenerator.generate:
\* a path, or None for a failure or a skip.
ImageOutcomes ==
    { [outcome |-> "ok"], [outcome |-> "sentinel"], [outcome |-> "raise"],
      [outcome |-> "interrupt"] }

\* EmailNotifier.send_success / send_empty / send_error: True, or False.
NotifyOutcomes ==
    { [outcome |-> "ok"], [outcome |-> "sentinel"], [outcome |-> "raise"],
      [outcome |-> "interrupt"] }

-----------------------------------------------------------------------------
(* main(): one action for each call of a collaborator and for each handler. *)
(* m_log lists the calls made, m_made the components constructed.           *)

Today      == "today"
TwoDaysAgo == "two days ago"

\* get_latest_available_date
get_latest_available_date == Today

\* get_target_date(days_offset=2)
get_target_date == TwoDaysAgo

DefaultReason == "default reason"

\* email_enabled = notifier._is_configured(); image_enabled = ENABLE_IMAGE_GENERATION
email_enabled == m_cfg.email_configured
image_enabled == m_cfg.image_generation

Call(fn, args, o) == [fn |-> fn, args |-> args, outcome |-> o.outcome]

\* Where control goes after a call in the try block: on, or into a handler.
AfterCall(o, next) ==
    IF o.outcome = "raise" THEN "except"
    ELSE IF o.outcome = "interrupt" THEN "interrupted"
    ELSE next

\* sum(len(cat.get('items', [])) for cat in result.get('categories', []))
RECURSIVE SumItems(_)
SumItems(cats) ==
    IF cats = <<>> THEN 0 ELSE Len(Get(Head(cats), "items", <<>>)) + SumItems(Tail(cats))

total_items(result) == SumItems(Get(result, "categories", <<>>))

InitMain ==
    /\ m_pc = "start"
    /\ m_cfg \in [zhipu_key : BOOLEAN, email_configured : BOOLEAN, image_generation : BOOLEAN]
    /\ m_log = <<>> /\ m_made = {} /\ m_result = <<>> /\ m_exit = None
    /\ TgIdle /\ RdIdle /\ FsIdle

\* The configuration check made only after the notifier is constructed.
CheckConfigLate ==
    /\ m_pc = "start"
    /\ m_made' = m_made \cup {"EmailNotifier"}
    /\ IF ~m_cfg.zhipu_key
       THEN m_pc' = "exited" /\ m_exit' = 1
       ELSE m_pc' = "fetch" /\ UNCHANGED m_exit
    /\ UNCHANGED <<m_cfg, m_log, m_result, tgVars, rdVars, fsVars>>

\* Lines 74-92: the check of ZHIPU_API_KEY, then the notifier and the flags.
CheckConfig ==
    /\ m_pc = "start"
    /\ IF ~m_cfg.zhipu_key
       THEN m_pc' = "exited" /\ m_exit' = 1 /\ UNCHANGED m_made
       ELSE m_pc' = "fetch" /\ m_made' = m_made \cup {"EmailNotifier"} /\ UNCHANGED m_exit
    /\ UNCHANGED <<m_cfg, m_log, m_result, tgVars, rdVars, fsVars>>

\* Lines 95-108: step 1, fetcher.fetch(num=10), and step 2, the date.
Step1Fetch ==
    /\ m_pc = "fetch"
    /\ m_made' = m_made \cup {"TianapiFetcher"}
    /\ \E answer \in ApiAnswers :
          LET o == fetch(answer)
          IN  /\ m_log' = Append(m_log, Call("fetch", <<10>>, o))
              /\ m_pc' = AfterCall(o, "get_content")
    /\ UNCHANGED <<m_cfg, m_result, m_exit, tgVars, rdVars, fsVars>>

\* Lines 110-115: step 3, fetcher.get_content(num=10), which fetches again.
Step3GetContent ==
    /\ m_pc = "get_content"
    /\ \E answer \in ApiAnswers :
          LET o == fetch(answer)
          IN  /\ m_log' = Append(m_log, Call("get_content", <<10>>, o))
              /\ m_pc' = AfterCall(o, "analyze")
    /\ UNCHANGED <<m_cfg, m_made, m_result, m_exit, tgVars, rdVars, fsVars>>

\* Lines 117-123: step 4, analyzer.analyze(content, target_date).
Step4Analyze ==
    /\ m_pc = "analyze"
    /\ m_made' = m_made \cup {"ClaudeAnalyzer"}
    /\ \E o \in AnalyzeOutcomes :
          /\ m_log' = Append(m_log, Call("analyze", <<get_latest_available_date>>, o))
          /\ IF o.outcome = "ok"
             THEN /\ m_result' = o.value
                  /\ m_pc' = IF Get(o.value, "status", None) = "empty" THEN "empty" ELSE "generate_css"
             ELSE /\ m_pc' = AfterCall(o, "generate_css")
                  /\ UNCHANGED m_result
    /\ UNCHANGED <<m_cfg, m_exit, tgVars, rdVars, fsVars>>

\* Lines 123-127: the empty result: send_empty if configured, then return.
EmptyResult ==
    /\ m_pc = "empty"
    /\ IF email_enabled
       THEN \E o \in NotifyOutcomes :
              /\ m_log' = Append(m_log,
                    Call("send_empty",
                         <<get_latest_available_date, Get(m_result, "reason", DefaultReason)>>, o))
              /\ m_pc' = AfterCall(o, "exited")
              /\ IF o.outcome \in {"raise", "interrupt"} THEN UNCHANGED m_exit ELSE m_exit' = 0
       ELSE m_pc' = "exited" /\ m_exit' = 0 /\ UNCHANGED m_log
    /\ UNCHANGED <<m_cfg, m_made, m_result, tgVars, rdVars, fsVars>>

\* Lines 131-134: step 5, HTMLGenerator() and generate_css().
Step5GenerateCss ==
    /\ m_pc = "generate_css"
    /\ m_made' = m_made \cup {"HTMLGenerator"}
    /\ \E o \in HtmlOutcomes :
          /\ m_log' = Append(m_log, Call("generate_css", <<>>, o))
          /\ m_pc' = AfterCall(o, "generate_daily")
    /\ UNCHANGED <<m_cfg, m_result, m_exit, tgVars, rdVars, fsVars>>

\* Lines 136-145: generate_daily(result) and the count of items.
Step5GenerateDaily ==
    /\ m_pc = "generate_daily"
    /\ \E o \in HtmlOutcomes :
          /\ m_log' = Append(m_log, Call("generate_daily", <<>>, o))
          /\ m_pc' = AfterCall(o, "image")
    /\ UNCHANGED <<m_cfg, m_made, m_result, m_exit, tgVars, rdVars, fsVars>>

\* Lines 147-160: step 6, the share card, when image generation is enabled.
Step6Image ==
    /\ m_pc = "image"
    /\ IF image_enabled
       THEN /\ m_made' = m_made \cup {"ImageGenerator"}
            /\ \E o \in ImageOutcomes :
                  /\ m_log' = Append(m_log,
                        Call("generate_from_analysis_result", <<get_latest_available_date>>, o))
                  /\ m_pc' = AfterCall(o, "xhs")
       ELSE m_pc' = "send_success" /\ UNCHANGED <<m_log, m_made>>
    /\ UNCHANGED <<m_cfg, m_result, m_exit, tgVars, rdVars, fsVars>>

\* Lines 162-167: the alternate-format cover.
Step6Xhs ==
    /\ m_pc = "xhs"
    /\ m_made' = m_made \cup {"XiaohongshuGenerator"}
    /\ \E o \in ImageOutcomes :
          /\ m_log' = Append(m_log, Call("xhs_generate", <<>>, o))
          /\ m_pc' = AfterCall(o, "send_success")
    /\ UNCHANGED <<m_cfg, m_result, m_exit, tgVars, rdVars, fsVars>>

\* Step 7 without the test of email_enabled.
Step7NotifyAlways ==
    /\ m_pc = "send_success"
    /\ \E o \in NotifyOutcomes :
          /\ m_log' = Append(m_log,
                Call("send_success", <<get_latest_available_date, total_items(m_result)>>, o))
          /\ m_pc' = AfterCall(o, "exited")
          /\ IF o.outcome \in {"raise", "interrupt"} THEN UNCHANGED m_exit ELSE m_exit' = 0
    /\ UNCHANGED <<m_cfg, m_made, m_result, tgVars, rdVars, fsVars>>

\* Lines 172-191: step 7, send_success if configured, and the normal return.
Step7Notify ==
    /\ m_pc = "send_success"
    /\ IF email_enabled
       THEN \E o \in NotifyOutcomes :
              /\ m_log' = Append(m_log,
                    Call("send_success", <<get_latest_available_date, total_items(m_result)>>, o))
              /\ m_pc' = AfterCall(o, "exited")
              /\ IF o.outcome \in {"raise", "interrupt"} THEN UNCHANGED m_exit ELSE m_exit' = 0
       ELSE m_pc' = "exited" /\ m_exit' = 0 /\ UNCHANGED m_log
    /\ UNCHANGED <<m_cfg, m_made, m_result, tgVars, rdVars, fsVars>>

\* The interrupt handler ending like the exception handler.
HandleInterruptAsError ==
    /\ m_pc = "interrupted"
    /\ m_pc' = "exited" /\ m_exit' = 1
    /\ UNCHANGED <<m_cfg, m_log, m_made, m_result, tgVars, rdVars, fsVars>>

\* Lines 193-195: except KeyboardInterrupt.
HandleInterrupt ==
    /\ m_pc = "interrupted"
    /\ m_pc' = "exited" /\ m_exit' = 130
    /\ UNCHANGED <<m_cfg, m_log, m_made, m_result, tgVars, rdVars, fsVars>>

\* The exception handler without its sys.exit(1).
HandleExceptionNoExit ==
    /\ m_pc = "except"
    /\ IF email_enabled
       THEN \E o \in NotifyOutcomes :
              m_log' = Append(m_log, Call("send_error", <<get_target_date>>, o))
       ELSE UNCHANGED m_log
    /\ m_pc' = "exited" /\ m_exit' = 0
    /\ UNCHANGED <<m_cfg, m_made, m_result, tgVars, rdVars, fsVars>>

\* Lines 197-210: except Exception: send_error if configured, whatever it
\* raises swallowed by the bare except, then sys.exit(1).
HandleException ==
    /\ m_pc = "except"
    /\ IF email_enabled
       THEN \E o \in NotifyOutcomes :
              m_log' = Append(m_log, Call("send_error", <<get_target_date>>, o))
       ELSE UNCHANGED m_log
    /\ m_pc' = "exited" /\ m_exit' = 1
    /\ UNCHANGED <<m_cfg, m_made, m_result, tgVars, rdVars, fsVars>>

NextMain ==
    \/ CheckConfig \/ Step1Fetch \/ Step3GetContent \/ Step4Analyze \/ EmptyResult
    \/ Step5GenerateCss \/ Step5GenerateDaily \/ Step6Image \/ Step6Xhs \/ Step7Notify
    \/ HandleInterrupt \/ HandleException

SpecMain == InitMain /\ [][NextMain]_vars

-----------------------------------------------------------------------------
(* Reading a rendered page back.                                            *)

\* The first position of element e in s at or after position from; 0 if none.
IndexFrom(s, e, from) ==
    IF \E i \in from..Len(s) : s[i] = e
    THEN CHOOSE i \in from..Len(s) : s[i] = e /\ \A j \in from..(i - 1) : s[j] # e
    ELSE 0

RECURSIVE Segments(_, _, _)
\* The texts of s between each `open' element and the `close' element after it.
Segments(s, open, close) ==
    LET a == IndexFrom(s, open, 1)
        b == IF a = 0 THEN 0 ELSE IndexFrom(s, close, a + 1)
    IN  IF a = 0 \/ b = 0 THEN <<>>
        ELSE <<SubSeq(s, a + 1, b - 1)>> \o Segments(SubSeq(s, b + 1, Len(s)), open, close)

\* The text of s from after element `from' up to element `to'.
Between(s, from, to) ==
    LET a == IndexFrom(s, from, 1)
    IN  SubSeq(s, a + 1, IndexFrom(s, to, a + 1) - 1)

SummaryTexts(doc) == Segments(doc.summary, LiOpen[1], LiClose[1])
CardTexts(doc)    == Segments(doc.cards, CardOpen[1], CardClose[1])

\* C2: in the summary of a rendered page, the item of a record whose description
\* has more than 100 characters is its title, " - ", the first 100 characters of
\* the description and "..."; a description of at most 100 characters is
\* reproduced verbatim with no marker; the summary has the first 5 records only.
C2_SummaryTruncation ==
    (rd_pc # "first" /\ ~Raised(rd_out1)) =>
        LET items == SummaryTexts(rd_out1)
        IN  /\ Len(items) = Min(5, Len(rd_news))
            /\ \A i \in 1..Len(items) :
                  LET d == Get(rd_news[i], "description", <<>>)
                      t == Get(rd_news[i], "title", NoTitle) \o <<" ", "-", " ">>
                  IN  /\ Len(d) > 100 =>
                            items[i] = t \o [j \in 1..100 |-> d[j]] \o <<".", ".", ".">>
                      /\ Len(d) <= 100 => items[i] = t \o d

\* A list of six records has been rendered whose first description is longer
\* than 100 characters and whose second has exactly 100.
C2_Witness ==
    /\ rd_pc = "done" /\ ~Raised(rd_out1) /\ Len(rd_news) = 6
    /\ Len(Get(rd_news[1], "description", <<>>)) > 100
    /\ Len(Get(rd_news[2], "description", <<>>)) = 100

\* Two documents that differ at most in the generation timestamp.
SameButTimestamp(a, b) ==
    IF Raised(a) \/ Raised(b) THEN a = b
    ELSE [a EXCEPT !.generated = 0] = [b EXCEPT !.generated = 0]

\* C8: two executions of the rendering pipeline on the same news list and date
\* produce the same HTML except for the generation timestamp.
C8_RenderDeterministic ==
    rd_pc = "done" => SameButTimestamp(rd_out1, rd_out2)

NoNulls(news_list) ==
    \A i \in 1..Len(news_list) : \A k \in DOMAIN news_list[i] : news_list[i][k] # Null

DocPlaces ==
    {"title", "meta_keywords", "date_badge", "summary", "count", "cards",
     "footer_keywords", "generated"}

JustReturned == fs_pc = "idle" /\ fs_calls > 0 /\ fs_last.outcome = "returned"

\* C9: after each completed call with date d the directory holds d.html,
\* css/styles.css and index.html, index.html redirects (refresh and link) to
\* d.html, the page holds what this call rendered, and the files are the ones
\* there before plus at most these three: a rerun for a date adds no file.
C9_ArtifactsAfterCall ==
    JustReturned =>
        LET d == fs_last.target_date
            page == d \o <<".", "h", "t", "m", "l">>
            three == {page, CssPath, IndexPath}
        IN  /\ three \subseteq DOMAIN fs_files
            /\ fs_files[IndexPath].refresh = page
            /\ fs_files[IndexPath].href = page
            /\ fs_files[page].generated = fs_last.at
            /\ fs_files[page].count = Len(fs_call.news_list)
            /\ fs_before \subseteq DOMAIN fs_files
            /\ DOMAIN fs_files \subseteq fs_before \cup three
            /\ three \subseteq fs_before => DOMAIN fs_files = fs_before

\* A call has been rerun for a date whose page was already there, after a call
\* for another date.
C9_Witness ==
    /\ JustReturned
    /\ fs_last.target_date \o <<".", "h", "t", "m", "l">> \in fs_before
    /\ Cardinality(fs_before) > 3

-----------------------------------------------------------------------------
(* Reading the log of a run of main().                                      *)

Called(fn)  == \E i \in 1..Len(m_log) : m_log[i].fn = fn
Exited      == m_pc = "exited"
Interrupted == \E i \in 1..Len(m_log) : m_log[i].outcome = "interrupt"

\* The calls of the try block (send_error is made by the handler).
TryCall(i) == m_log[i].fn # "send_error"

AfterAnalysis ==
    {"generate_css", "generate_daily", "generate_from_analysis_result", "xhs_generate",
     "send_success"}

EmptyAnalysis ==
    \E i \in 1..Len(m_log) :
        m_log[i].fn = "analyze" /\ m_log[i].outcome = "ok" /\ Get(m_result, "status", None) = "empty"

\* C3: in a run that is not interrupted, when the analysis returns the status
\* "empty": send_empty is called with the run date and the reason of the result
\* exactly if notification is configured, no HTML is generated, the image
\* generators and send_success are not called, and the run ends with status 0.
C3_EmptyAnalysisEndsNormally ==
    (EmptyAnalysis /\ ~Interrupted) =>
        /\ \A fn \in AfterAnalysis : ~Called(fn)
        /\ "HTMLGenerator" \notin m_made
        /\ Exited =>
              /\ m_exit = 0
              /\ Called("send_empty") <=> m_cfg.email_configured
              /\ \A i \in 1..Len(m_log) :
                    (m_log[i].fn = "send_empty" /\ "reason" \in DOMAIN m_result) =>
                        m_log[i].args = <<"today", m_result.reason>>

FetchFailedAt(i) == m_log[i].fn \in {"fetch", "get_content"} /\ m_log[i].outcome = "raise"

\* C4: once fetch has raised, in step 1 or in get_content, no analysis, HTML
\* generation, image generation or send_success follows; the run ends with
\* status 1, with send_error called exactly if notification is configured.
C4_FetchFailureAborts ==
    \A i \in 1..Len(m_log) :
        FetchFailedAt(i) =>
            /\ \A j \in (i + 1)..Len(m_log) : m_log[j].fn = "send_error"
            /\ \A fn \in AfterAnalysis \cup {"analyze", "send_empty"} : ~Called(fn)
            /\ m_made \cap {"ClaudeAnalyzer", "HTMLGenerator", "ImageGenerator",
                            "XiaohongshuGenerator"} = {}
            /\ Exited => (m_exit = 1 /\ (Called("send_error") <=> m_cfg.email_configured))

\* The re-fetch of get_content has failed in a run with notification, which
\* has ended.
C4_Witness ==
    /\ Exited /\ m_cfg.email_configured
    /\ \E i \in 1..Len(m_log) : FetchFailedAt(i) /\ m_log[i].fn = "get_content"

OptionalCalls == {"generate_from_analysis_result", "xhs_generate", "send_success"}

\* C5: in a run that is not interrupted, a failure of an image generator or of
\* send_success, by its sentinel or by an exception, is swallowed: the steps
\* after it still run and the run ends with status 0.
C5_OptionalFailuresSwallowed ==
    (Exited /\ ~Interrupted) =>
        \A i \in 1..Len(m_log) :
            (m_log[i].fn \in OptionalCalls /\ m_log[i].outcome \in {"sentinel", "raise"}) =>
                /\ m_exit = 0
                /\ m_log[i].fn = "generate_from_analysis_result" => Called("xhs_generate")
                /\ (m_log[i].fn # "send_success" /\ m_cfg.email_configured) => Called("send_success")

\* C6: a run ends with status 1, 130 or 0: 1 exactly if ZHIPU_API_KEY is missing
\* or a call of the try block raised an exception, 130 exactly if a call of
\* the try block was interrupted, 0 otherwise; whatever send_error does.
C6_ExitStatus ==
    Exited =>
        LET raised == \E i \in 1..Len(m_log) : TryCall(i) /\ m_log[i].outcome = "raise"
            interrupted == \E i \in 1..Len(m_log) : TryCall(i) /\ m_log[i].outcome = "interrupt"
        IN  /\ m_exit \in {0, 1, 130}
            /\ m_exit = 1 <=> (~m_cfg.zhipu_key \/ raised)
            /\ m_exit = 130 <=> interrupted
            /\ m_exit = 0 <=> (m_cfg.zhipu_key /\ ~raised /\ ~interrupted)

\* A run has ended with status 1 in which send_error raised as well.
C6_Witness ==
    /\ Exited /\ m_exit = 1
    /\ \E i \in 1..Len(m_log) : m_log[i].fn = "send_error" /\ m_log[i].outcome = "raise"

\* C7: without ZHIPU_API_KEY the run exits with status 1 and no collaborator
\* is constructed or called.
C7_MissingConfigStopsFirst ==
    ~m_cfg.zhipu_key =>
        /\ m_log = <<>>
        /\ m_made = {}
        /\ m_pc \in {"start", "exited"}
        /\ Exited => m_exit = 1

\* A run without ZHIPU_API_KEY has ended.
C7_Witness == Exited /\ ~m_cfg.zhipu_key

-----------------------------------------------------------------------------
(* The order of the writes of generate_simple_html.                         *)

\* If index.html exists, the page it redirects to and the stylesheet exist.
IndexTargetExists ==
    IndexPath \in DOMAIN fs_files =>
        /\ fs_files[IndexPath].refresh \in DOMAIN fs_files
        /\ fs_files[IndexPath].href \in DOMAIN fs_files
        /\ CssPath \in DOMAIN fs_files

\* A step of a call whose date string does not parse.
StepOfFailingCall ==
    /\ fs_pc' \in {"strptime", "idle"} /\ fs_pc \in {"idle", "strptime"} /\ fs_pc' # fs_pc
    /\ Raised(strptime(fs_call'.target_date))

\* Every file but the stylesheet is as it was, and no other file has appeared.
PagesAndIndexUnchanged ==
    /\ DOMAIN fs_files' \subseteq DOMAIN fs_files \cup {CssPath}
    /\ \A q \in DOMAIN fs_files \ {CssPath} : q \in DOMAIN fs_files' /\ fs_files'[q] = fs_files[q]

\* C11: from an empty directory, at every point of every sequence of calls,
\* between the file writes of a call and after a call that fails on an invalid
\* date included, if index.html exists then the page it redirects to exists and
\* css/styles.css exists; and no step of a call that fails on an invalid date
\* changes a dated page or index.html.
C11_IndexNeverDangles ==
    /\ []IndexTargetExists
    /\ [][StepOfFailingCall => PagesAndIndexUnchanged]_vars

\* A call has failed on an invalid date in a directory that has an index.
C11_Witness ==
    /\ fs_pc = "idle" /\ fs_calls > 0 /\ fs_last.outcome = "ValueError"
    /\ IndexPath \in DOMAIN fs_files

-----------------------------------------------------------------------------
(* The calls of the notifier in a run of main().                            *)

NotifierCalls == {"send_success", "send_empty", "send_error"}

\* The places in the log of the calls of the notifier that returned.
ReturnedNotifications ==
    { i \in 1..Len(m_log) :
        m_log[i].fn \in NotifierCalls /\ m_log[i].outcome \in {"ok", "sentinel"} }

\* C12: without notification configured no entry point of the notifier is
\* called; with it, a run that passed the configuration check, was not
\* interrupted and has ended called at least one; send_success and send_empty
\* are never both called; send_success follows a generated page; send_error is
\* called at most once, by the exception handler after a call of the try block
\* raised; and at most one call of the notifier returns without raising.
C12_NotificationDiscipline ==
    /\ ~m_cfg.email_configured => \A fn \in NotifierCalls : ~Called(fn)
    /\ (Exited /\ m_cfg.zhipu_key /\ m_cfg.email_configured /\ ~Interrupted) =>
          \E fn \in NotifierCalls : Called(fn)
    /\ ~(Called("send_success") /\ Called("send_empty"))
    /\ \A i \in 1..Len(m_log) :
          m_log[i].fn = "send_success" =>
              \E j \in 1..(i - 1) : m_log[j].fn = "generate_daily" /\ m_log[j].outcome = "ok"
    /\ Cardinality({ i \in 1..Len(m_log) : m_log[i].fn = "send_error" }) <= 1
    /\ \A i \in 1..Len(m_log) :
          m_log[i].fn = "send_error" =>
              /\ i = Len(m_log) /\ Exited /\ m_exit = 1
              /\ i > 1 /\ m_log[i - 1].outcome = "raise"
    /\ Cardinality(ReturnedNotifications) <= 1

\* A run has ended in which send_success raised and send_error returned.
C12_Witness ==
    /\ Exited
    /\ \E i \in 1..Len(m_log) : m_log[i].fn = "send_success" /\ m_log[i].outcome = "raise"
    /\ \E i \in 1..Len(m_log) : m_log[i].fn = "send_error" /\ m_log[i].outcome = "ok"

=============================================================================
